---- MODULE Spec2Model ----
(***************************************************************************)
(* A model of the ratatui rendering toolkit: the constraint layout solver, *)
(* its cache, the cell buffer diff, the constraints example's App::render, *)
(* the demo2 render loop, the Scrollbar widget and its ScrollbarState.     *)
(*                                                                         *)
(* Each subsystem has its own variables, its own Init and Next and its own *)
(* specification; the variables of the other subsystems stay idle.         *)
(***************************************************************************)
EXTENDS Integers, Sequences, FiniteSets, TLC

VARIABLES
    \* layout solver: one Layout applied to one container
    layout, container, rects, solved,
    \* layout cache
    cache, cache_key, cache_result, cache_hit, cache_evicted,
    \* buffer diff
    prev_buf, next_buf, updates, patched, diffed,
    \* constraints example (examples/constraints.rs)
    app, term_size, buf, cpc,
    \* demo2 render loop (examples/demo2/app.rs)
    mode, context, rpc, run_result, failure, stopped, log,
    \* Scrollbar widget
    scrollbar, sb_state, sb_area, sb_buf, sb_pc, sb_call,
    \* ScrollbarState
    state, before, last_op,
    \* Text (src/text/text.rs)
    text, text_base, text_added, text_out, text_call, text_calls

layoutVars == <<layout, container, rects, solved>>
cacheVars == <<cache, cache_key, cache_result, cache_hit, cache_evicted>>
diffVars == <<prev_buf, next_buf, updates, patched, diffed>>
exampleVars == <<app, term_size, buf, cpc>>
runVars == <<mode, context, rpc, run_result, failure, stopped, log>>
scrollbarVars == <<scrollbar, sb_state, sb_area, sb_buf, sb_pc, sb_call>>
stateVars == <<state, before, last_op>>
textVars == <<text, text_base, text_added, text_out, text_call, text_calls>>

vars ==
    <<layoutVars, cacheVars, diffVars, exampleVars, runVars, scrollbarVars, stateVars, textVars>>

(***************************************************************************)
(* Arithmetic helpers.                                                     *)
(***************************************************************************)
Min2(a, b) == IF a <= b THEN a ELSE b

Max2(a, b) == IF a >= b THEN a ELSE b

\* u16/usize saturating_sub
saturating_sub(a, b) == IF a >= b THEN a - b ELSE 0

RECURSIVE SumSeq(_)
SumSeq(s) == IF s = <<>> THEN 0 ELSE Head(s) + SumSeq(Tail(s))

\* round-half-up of the non-negative quotient n / d (d > 0)
RoundDiv(n, d) == (2 * n + d) \div (2 * d)

(***************************************************************************)
(* Geometry: Rect {x, y, width, height} (spec section 3).                  *)
(***************************************************************************)
Rect(x, y, w, h) == [x |-> x, y |-> y, width |-> w, height |-> h]

right(r) == r.x + r.width

bottom(r) == r.y + r.height

area(r) == r.width * r.height

\* the cells a rect addresses
Cells(r) == {<<cx, cy>> \in (r.x .. right(r) - 1) \X (r.y .. bottom(r) - 1) : TRUE}

Overlap(r1, r2) == Cells(r1) \cap Cells(r2) # {}

\* r lies entirely inside outer: every cell of r is a cell of outer
Inside(outer, r) == Cells(r) \subseteq Cells(outer)

(***************************************************************************)
(* Constraint (spec section 3): a tagged variant.                          *)
(***************************************************************************)
Fixed(n) == [kind |-> "Fixed", a |-> n, b |-> 0]

Min(n) == [kind |-> "Min", a |-> n, b |-> 0]

Max(n) == [kind |-> "Max", a |-> n, b |-> 0]

Length(n) == [kind |-> "Length", a |-> n, b |-> 0]

Percentage(p) == [kind |-> "Percentage", a |-> p, b |-> 0]

Ratio(num, den) == [kind |-> "Ratio", a |-> num, b |-> den]

Proportional(w) == [kind |-> "Proportional", a |-> w, b |-> 0]

Flex == {"Stretch", "StretchLast", "Start", "Center", "End", "SpaceAround", "SpaceBetween"}

Direction == {"Horizontal", "Vertical"}

(***************************************************************************)
(* Constraint and priority model (spec section 4.1).                       *)
(***************************************************************************)
IsFixed(c) == c.kind = "Fixed"

IsProportional(c) == c.kind = "Proportional"

\* the slots a stretch mode grows: non-fixed, non-proportional, and not a
\* Max, which is "at most n" and so never grows past its natural size
IsGrowable(c) == c.kind \in {"Min", "Length", "Percentage", "Ratio"}

\* step 3: the natural target size of a constraint in a container of length L
Natural(c, L) ==
    CASE c.kind \in {"Fixed", "Length", "Min", "Max"} -> c.a
      [] c.kind = "Percentage" -> RoundDiv(c.a * L, 100)
      [] c.kind = "Ratio" -> IF c.b = 0 THEN 0 ELSE RoundDiv(c.a * L, c.b)
      [] OTHER -> 0

RECURSIVE SumFixed(_)
SumFixed(cons) ==
    IF cons = <<>> THEN 0
    ELSE (IF IsFixed(Head(cons)) THEN Head(cons).a ELSE 0) + SumFixed(Tail(cons))

\* a Fixed constraint shrunk to the room the container has left
FixedGrantShrunk(c, room) == Min2(c.a, room)

\* what a Fixed constraint is granted: its exact value, unconditionally (step 1)
FixedGrant(c, room) == c.a

\* steps 1-3 and the tie-break rule: a Fixed slot gets its exact value; the
\* other slots get their natural size out of the room that is left, and an
\* overflow is taken from the later constraints first, never below 0
RECURSIVE Grant(_, _, _, _)
Grant(cons, L, i, room) ==
    IF i > Len(cons) THEN <<>>
    ELSE LET c == cons[i]
             g == IF IsFixed(c) THEN FixedGrant(c, room) ELSE Min2(Natural(c, L), room)
         IN  <<g>> \o Grant(cons, L, i + 1, IF IsFixed(c) THEN room ELSE room - g)

RECURSIVE SumOver(_, _, _)
\* the sum of f[i] over the indices i of 1..n that are in S
SumOver(f, n, S) ==
    IF n = 0 THEN 0 ELSE (IF n \in S THEN f[n] ELSE 0) + SumOver(f, n - 1, S)

SetMax(S) == CHOOSE m \in S : \A k \in S : k <= m

\* Stretch growth that loses the round-off remainder
GrowthNoRemainder(flex, i, G, D) ==
    IF i \notin G THEN 0
    ELSE CASE flex = "Stretch" -> D \div Cardinality(G)
           [] flex = "StretchLast" -> IF i = SetMax(G) THEN D ELSE 0
           [] OTHER -> 0

\* step 5, stretch modes: the leftover D goes to the growable slots G,
\* evenly under Stretch with the round-off remainder on the last one, and
\* all of it to the last one under StretchLast
Growth(flex, i, G, D) ==
    IF i \notin G THEN 0
    ELSE CASE flex = "Stretch" ->
                (D \div Cardinality(G)) + (IF i = SetMax(G) THEN D % Cardinality(G) ELSE 0)
           [] flex = "StretchLast" -> IF i = SetMax(G) THEN D ELSE 0
           [] OTHER -> 0

\* step 4: the Proportional slots P divide what remains; the round-off
\* remainder goes to the last of them; with a total weight of 0 the last
\* one takes the space under a stretch mode and it is dropped otherwise
Share(flex, cons, i, P, D) ==
    IF i \notin P THEN 0
    ELSE LET weights == [k \in 1..Len(cons) |-> cons[k].a]
             W == SumOver(weights, Len(cons), P)
             given == SumOver([k \in 1..Len(cons) |-> (D * cons[k].a) \div Max2(W, 1)],
                              Len(cons), P)
         IN  IF W = 0
             THEN IF flex \in {"Stretch", "StretchLast"} /\ i = SetMax(P) THEN D ELSE 0
             ELSE ((D * cons[i].a) \div W) + (IF i = SetMax(P) THEN D - given ELSE 0)

\* the lengths of the children along the primary axis
Lengths(L, cons, flex) ==
    LET n == Len(cons)
        idx == 1..n
        NonFixed == {i \in idx : ~IsFixed(cons[i])}
        R == saturating_sub(L, SumFixed(cons))
        base == Grant(cons, L, 1, R)
        G == {i \in idx : IsGrowable(cons[i])}
        D == R - SumOver(base, n, NonFixed)
        grown == [i \in idx |-> base[i] + Growth(flex, i, G, D)]
        P == {i \in idx : IsProportional(cons[i])}
        D2 == R - SumOver(grown, n, NonFixed)
    IN  [i \in idx |-> grown[i] + Share(flex, cons, i, P, D2)]

\* step 5, spacer modes: the blank segment before the first child
Lead(flex, n, spacing) ==
    CASE flex = "End" -> spacing
      [] flex = "Center" -> spacing \div 2
      [] flex = "SpaceAround" -> spacing \div (n + 1)
      [] OTHER -> 0

\* step 5, spacer modes: the blank segment between two children
Gap(flex, n, spacing) ==
    CASE flex = "SpaceAround" -> spacing \div (n + 1)
      [] flex = "SpaceBetween" -> IF n > 1 THEN spacing \div (n - 1) ELSE 0
      [] OTHER -> 0

(***************************************************************************)
(* Layout solver (spec section 4.2).                                       *)
(***************************************************************************)
Margin(h, v) == [horizontal |-> h, vertical |-> v]

Layout(direction, constraints, flex, margin) ==
    [direction |-> direction, constraints |-> constraints, flex |-> flex, margin |-> margin]

\* the margin-reduced container
Inner(r, m) ==
    Rect(r.x + Min2(m.horizontal, r.width), r.y + Min2(m.vertical, r.height),
         saturating_sub(r.width, 2 * m.horizontal), saturating_sub(r.height, 2 * m.vertical))

\* solve(direction, container, constraints, flex, margin) -> [Rect]
split(l, r) ==
    LET inner == Inner(r, l.margin)
        horizontal == l.direction = "Horizontal"
        L == IF horizontal THEN inner.width ELSE inner.height
        n == Len(l.constraints)
        lens == Lengths(L, l.constraints, l.flex)
        spacing == saturating_sub(L, SumOver(lens, n, 1..n))
        offset(i) == Lead(l.flex, n, spacing) + SumOver(lens, n, 1..(i - 1))
                        + (i - 1) * Gap(l.flex, n, spacing)
    IN  [i \in 1..n |->
            IF horizontal
            THEN Rect(inner.x + offset(i), inner.y, lens[i], inner.height)
            ELSE Rect(inner.x, inner.y + offset(i), inner.width, lens[i])]

\* the length of a rect along a direction
Along(direction, r) == IF direction = "Horizontal" THEN r.width ELSE r.height

(***************************************************************************)
(* The solver applied to bounded inputs.                                   *)
(***************************************************************************)
\* longest constraint list
MaxConstraints == 2

\* largest container length along either axis
MaxLen == 5

Sizes == {1, 3}

ConstraintValues ==
    {Fixed(n) : n \in Sizes} \cup {Min(1), Max(3)} \cup {Length(n) : n \in Sizes}
        \cup {Percentage(50), Ratio(1, 3)} \cup {Proportional(w) : w \in {0, 1}}

ConstraintLists == UNION {[1..n -> ConstraintValues] : n \in 0..MaxConstraints}

Margins == {Margin(0, 0), Margin(1, 1)}

\* the containers split along a direction: every length along it
Containers(d) ==
    IF d = "Horizontal" THEN {Rect(1, 2, w, 3) : w \in 0..MaxLen}
    ELSE {Rect(1, 2, 3, h) : h \in 0..MaxLen}

\* the inputs of section 8's examples: widths 50, 10 and 7
ExampleInputs ==
    {<<Layout("Horizontal", cs, f, Margin(0, 0)), Rect(0, 0, w, 1)>> :
        cs \in {<<Fixed(30), Proportional(1)>>}, f \in Flex, w \in {50}}
    \cup {<<Layout("Horizontal", cs, f, Margin(0, 0)), Rect(0, 0, w, 1)>> :
        cs \in {<<Fixed(15), Proportional(1)>>}, f \in Flex, w \in {10}}
    \cup {<<Layout("Horizontal", cs, f, Margin(0, 0)), Rect(0, 0, w, 1)>> :
        cs \in {<<Percentage(50), Percentage(50)>>}, f \in Flex, w \in {7}}

LayoutIdle ==
    /\ layout = Layout("Horizontal", <<>>, "Stretch", Margin(0, 0))
    /\ container = Rect(0, 0, 0, 0)
    /\ rects = <<>>
    /\ solved = FALSE

CacheIdle ==
    /\ cache = <<>>
    /\ cache_key = <<>>
    /\ cache_result = <<>>
    /\ cache_hit = FALSE
    /\ cache_evicted = FALSE

DiffIdle ==
    /\ prev_buf = <<>>
    /\ next_buf = <<>>
    /\ updates = <<>>
    /\ patched = <<>>
    /\ diffed = FALSE

ExampleIdle ==
    /\ app = <<>>
    /\ term_size = Rect(0, 0, 0, 0)
    /\ buf = [area |-> Rect(0, 0, 0, 0), content |-> <<>>]
    /\ cpc = "idle"

RunIdle ==
    /\ mode = "Normal"
    /\ context = [tab_index |-> 0, row_index |-> 0]
    /\ rpc = "idle"
    /\ run_result = "none"
    /\ failure = [op |-> "none", at |-> 0]
    /\ stopped = FALSE
    /\ log = <<>>

ScrollbarIdle ==
    /\ scrollbar = <<>>
    /\ sb_state = <<>>
    /\ sb_area = Rect(0, 0, 0, 0)
    /\ sb_buf = [area |-> Rect(0, 0, 0, 0), content |-> <<>>]
    /\ sb_pc = "idle"
    /\ sb_call = [op |-> "none", set |-> <<>>]

StateIdle ==
    /\ state = [content_length |-> 0, position |-> 0, viewport_content_length |-> 0]
    /\ before = [content_length |-> 0, position |-> 0, viewport_content_length |-> 0]
    /\ last_op = "idle"

TextIdle ==
    /\ text = [lines |-> <<>>, style |-> [fg |-> <<>>, add_modifier |-> {}]]
    /\ text_base = [lines |-> <<>>, style |-> [fg |-> <<>>, add_modifier |-> {}]]
    /\ text_added = <<>>
    /\ text_out = <<>>
    /\ text_call = <<>>
    /\ text_calls = 0

InitLayout ==
    /\ \/ \E d \in Direction, cs \in ConstraintLists, f \in Flex, m \in Margins :
             /\ layout = Layout(d, cs, f, m)
             /\ container \in Containers(d)
       \/ \E in \in ExampleInputs :
             /\ layout = in[1]
             /\ container = in[2]
    /\ rects = <<>>
    /\ solved = FALSE
    /\ CacheIdle /\ DiffIdle /\ ExampleIdle /\ RunIdle /\ ScrollbarIdle /\ StateIdle /\ TextIdle

\* Rect::split(&Layout) / Layout::split(Rect)
Split ==
    /\ ~solved
    /\ rects' = split(layout, container)
    /\ solved' = TRUE
    /\ UNCHANGED <<layout, container>>
    /\ UNCHANGED <<cacheVars, diffVars, exampleVars, runVars, scrollbarVars, stateVars, textVars>>

NextLayout == Split

SpecLayout == InitLayout /\ [][NextLayout]_vars

\* the child lengths along the layout's direction, and the container's
ChildLengths == [i \in 1..Len(rects) |-> Along(layout.direction, rects[i])]

ContainerLength == Along(layout.direction, Inner(container, layout.margin))

\* C1: for every direction, container and constraint list (lists whose
\* Fixed sizes exceed the container included) the returned rects are
\* pairwise non-overlapping and each lies entirely inside the container.
C1_NonOverlapInside ==
    solved =>
        /\ \A i \in 1..Len(rects) : Inside(container, rects[i])
        /\ \A i, j \in 1..Len(rects) : i < j => ~Overlap(rects[i], rects[j])

OnlySumKinds ==
    \A i \in 1..Len(layout.constraints) :
        layout.constraints[i].kind \in {"Length", "Percentage", "Ratio", "Proportional"}

\* C2 as stated: under Stretch, for every container length L and every list
\* of Length, Percentage, Ratio and Proportional constraints, the child
\* lengths sum to exactly L.
C2_SumExact_Original ==
    (solved /\ layout.flex = "Stretch" /\ OnlySumKinds) =>
        SumSeq(ChildLengths) = ContainerLength

\* C2 amended: under Stretch, for every container length L and every
\* non-empty list of Length, Percentage, Ratio and Proportional constraints,
\* the child lengths sum to exactly L; width 7 with two Percentage(50)
\* yields two widths that sum to 7.
C2_SumExact ==
    (solved /\ layout.flex = "Stretch" /\ OnlySumKinds /\ layout.constraints # <<>>) =>
        /\ SumSeq(ChildLengths) = ContainerLength
        /\ \A i \in 1..Len(rects) : ChildLengths[i] \in Nat

\* C2 witness: the width-7 example solved under Stretch, as 4 and 3
C2_Witness ==
    /\ solved
    /\ layout.flex = "Stretch"
    /\ layout.constraints = <<Percentage(50), Percentage(50)>>
    /\ container.width = 7
    /\ ChildLengths = <<4, 3>>

CacheSize == 2

CacheKeys ==
    {<<Layout(d, cs, f, Margin(0, 0)), Rect(0, 0, 5, 2)>> :
        d \in Direction,
        cs \in {<<Fixed(2), Length(1)>>, <<Length(1), Fixed(2)>>},
        f \in {"Stretch", "StretchLast", "End"}}

\* keys compared on the container, the direction and the constraints only
KeyEqNoFlex(k1, k2) ==
    /\ k1[2] = k2[2]
    /\ k1[1].direction = k2[1].direction
    /\ k1[1].constraints = k2[1].constraints

\* key equality: structural equality of direction, constraint list, flex
\* mode, margins and container rect
KeyEq(k1, k2) == k1 = k2

Lookup(c, key) == {i \in 1..Len(c) : KeyEq(c[i].key, key)}

Without(c, i) == SubSeq(c, 1, i - 1) \o SubSeq(c, i + 1, Len(c))

InitCache ==
    /\ cache = <<>>
    /\ cache_key = <<>>
    /\ cache_result = <<>>
    /\ cache_hit = FALSE
    /\ cache_evicted = FALSE
    /\ LayoutIdle /\ DiffIdle /\ ExampleIdle /\ RunIdle /\ ScrollbarIdle /\ StateIdle /\ TextIdle

\* solve_cached(key): a hit returns the stored rects and makes the entry
\* the most recently used; a miss solves, stores the result and evicts the
\* least recently used entry when the cache is full
SplitCached ==
    \E key \in CacheKeys :
        /\ cache_key' = key
        /\ IF Lookup(cache, key) # {}
           THEN LET i == CHOOSE k \in Lookup(cache, key) : TRUE
                IN  /\ cache_result' = cache[i].value
                    /\ cache' = <<cache[i]>> \o Without(cache, i)
                    /\ cache_hit' = TRUE
                    /\ UNCHANGED cache_evicted
           ELSE LET value == split(key[1], key[2])
                    kept == SubSeq(cache, 1, Min2(Len(cache), CacheSize - 1))
                IN  /\ cache_result' = value
                    /\ cache' = <<[key |-> key, value |-> value]>> \o kept
                    /\ cache_hit' = FALSE
                    /\ cache_evicted' = (cache_evicted \/ Len(cache) = CacheSize)
        /\ UNCHANGED <<layoutVars, diffVars, exampleVars, runVars,
                       scrollbarVars, stateVars, textVars>>

NextCache == SplitCached

SpecCache == InitCache /\ [][NextCache]_vars

\* C4: for every key and every history of earlier lookups, evictions
\* included, the cached solve returns the rects the uncached solver returns
\* for that key.
C4_CacheEquivalence ==
    /\ cache_key # <<>> => cache_result = split(cache_key[1], cache_key[2])
    /\ \A i \in 1..Len(cache) : cache[i].value = split(cache[i].key[1], cache[i].key[2])
    /\ Len(cache) <= CacheSize

\* C4 witness: a lookup answered from the cache after an eviction
C4_Witness ==
    /\ cache_evicted
    /\ cache_hit
    /\ Len(cache) = CacheSize
    /\ cache_result = split(cache_key[1], cache_key[2])

(***************************************************************************)
(* Styled cell buffer (spec sections 3 and 4.4): a Rect and its cells in   *)
(* row-major order.                                                        *)
(***************************************************************************)
Cell(symbol, style) == [symbol |-> symbol, style |-> style]

\* a blank cell: a space with the default style
BlankCell == Cell(" ", "default")

Buffer(r, content) == [area |-> r, content |-> content]

\* Buffer::empty(area): width * height blank cells
Buffer_empty(r) == Buffer(r, [i \in 1..area(r) |-> BlankCell])

\* the (1-based) index of the cell at (x, y)
index_of(b, x, y) == (y - b.area.y) * b.area.width + (x - b.area.x) + 1

\* the position of the cell at (1-based) index i
pos_of(b, i) == <<b.area.x + ((i - 1) % b.area.width), b.area.y + ((i - 1) \div b.area.width)>>

\* cells compared on the symbol alone
CellDiffersSymbolOnly(c1, c2) == c1.symbol # c2.symbol

\* two cells differ when their content or their style differs
CellDiffers(c1, c2) == c1 # c2

\* previous.diff(next): the (x, y, cell) of every position whose cell in
\* next differs from the one in previous, in row-major order
RECURSIVE diff_from(_, _, _)
diff_from(previous, next, i) ==
    IF i > Len(next.content) THEN <<>>
    ELSE (IF CellDiffers(next.content[i], previous.content[i])
          THEN <<<<pos_of(previous, i)[1], pos_of(previous, i)[2], next.content[i]>>>>
          ELSE <<>>) \o diff_from(previous, next, i + 1)

diff(previous, next) == diff_from(previous, next, 1)

\* the updates applied to a buffer as overwrites
RECURSIVE overwrite(_, _)
overwrite(b, ups) ==
    IF ups = <<>> THEN b
    ELSE LET u == Head(ups)
         IN  overwrite(Buffer(b.area, [b.content EXCEPT ![index_of(b, u[1], u[2])] = u[3]]),
                       Tail(ups))

\* most cells of a buffer in the model
MaxCells == 4

CellValues == {BlankCell, Cell("a", "default"), Cell("a", "bold")}

BufferAreas ==
    {Rect(1, 2, w, h) : <<w, h>> \in {wh \in (0..MaxCells) \X (0..MaxCells) :
                                          wh[1] * wh[2] <= MaxCells}}

InitDiff ==
    /\ \E r \in BufferAreas :
          /\ prev_buf \in {Buffer(r, c) : c \in [1..area(r) -> CellValues]}
          /\ next_buf \in {Buffer(r, c) : c \in [1..area(r) -> CellValues]}
    /\ updates = <<>>
    /\ patched = <<>>
    /\ diffed = FALSE
    /\ LayoutIdle /\ CacheIdle /\ ExampleIdle /\ RunIdle /\ ScrollbarIdle /\ StateIdle /\ TextIdle

\* the diff of the two buffers is taken and written over the previous one
DiffAndApply ==
    /\ ~diffed
    /\ updates' = diff(prev_buf, next_buf)
    /\ patched' = overwrite(prev_buf, diff(prev_buf, next_buf))
    /\ diffed' = TRUE
    /\ UNCHANGED <<prev_buf, next_buf>>
    /\ UNCHANGED <<layoutVars, cacheVars, exampleVars, runVars, scrollbarVars, stateVars, textVars>>

NextDiff == DiffAndApply

SpecDiff == InitDiff /\ [][NextDiff]_vars

\* C5: for two buffers of equal area, overwriting in the first exactly the
\* cells the diff lists reproduces the second cell for cell, and the diff of
\* a buffer with itself is empty.
C5_DiffRoundTrip ==
    diffed =>
        /\ patched = next_buf
        /\ prev_buf = next_buf => updates = <<>>
        /\ \A k \in 1..Len(updates) : <<updates[k][1], updates[k][2]>> \in Cells(prev_buf.area)

\* C5 witness: a diff of several cells, one of them changed in style only
C5_Witness ==
    /\ diffed
    /\ Len(updates) >= 2
    /\ \E i \in 1..Len(next_buf.content) :
          /\ next_buf.content[i].symbol = prev_buf.content[i].symbol
          /\ next_buf.content[i].style # prev_buf.content[i].style
    /\ patched = next_buf

(***************************************************************************)
(* The constraints example (examples/constraints.rs): App, its key         *)
(* handling and App::render, which assembles the frame's cell store from   *)
(* two off-screen buffers.                                                 *)
(***************************************************************************)
SPACER_HEIGHT == 0

ILLUSTRATION_HEIGHT == 4

EXAMPLE_HEIGHT == ILLUSTRATION_HEIGHT + SPACER_HEIGHT

\* the height Fixed(6) gives to the tabs and the axis
TABS_AND_AXIS_HEIGHT == 6

\* u16 arithmetic wraps at 2^16
U16 == 65536

ExampleSelection == {"Fixed", "Length", "Percentage", "Ratio", "Proportional", "Min", "Max"}

ExampleSelection_previous(sel) ==
    CASE sel = "Fixed" -> "Fixed"
      [] sel = "Length" -> "Fixed"
      [] sel = "Percentage" -> "Length"
      [] sel = "Ratio" -> "Percentage"
      [] sel = "Proportional" -> "Ratio"
      [] sel = "Min" -> "Proportional"
      [] sel = "Max" -> "Min"

ExampleSelection_next(sel) ==
    CASE sel = "Fixed" -> "Length"
      [] sel = "Length" -> "Percentage"
      [] sel = "Percentage" -> "Ratio"
      [] sel = "Ratio" -> "Proportional"
      [] sel = "Proportional" -> "Min"
      [] sel = "Min" -> "Max"
      [] sel = "Max" -> "Max"

get_example_count(sel) ==
    CASE sel = "Fixed" -> 2
      [] sel = "Length" -> 4
      [] sel = "Percentage" -> 5
      [] sel = "Ratio" -> 4
      [] sel = "Proportional" -> 2
      [] sel = "Min" -> 5
      [] sel = "Max" -> 5

\* the number of Example widgets render_<selection>_example renders
rendered_examples(sel) ==
    CASE sel = "Fixed" -> 4
      [] sel = "Length" -> 4
      [] sel = "Percentage" -> 5
      [] sel = "Ratio" -> 4
      [] sel = "Proportional" -> 2
      [] sel = "Min" -> 5
      [] sel = "Max" -> 5

App(sel, scroll_offset, max_scroll_offset) ==
    [selected_example |-> sel, scroll_offset |-> scroll_offset,
     max_scroll_offset |-> max_scroll_offset]

update_max_scroll_offset(a) ==
    [a EXCEPT !.max_scroll_offset = (get_example_count(a.selected_example) - 1) * EXAMPLE_HEIGHT]

App_next(a) ==
    [update_max_scroll_offset([a EXCEPT !.selected_example = ExampleSelection_next(@)])
        EXCEPT !.scroll_offset = 0]

App_previous(a) ==
    [update_max_scroll_offset([a EXCEPT !.selected_example = ExampleSelection_previous(@)])
        EXCEPT !.scroll_offset = 0]

App_up(a) == [a EXCEPT !.scroll_offset = saturating_sub(@, 1)]

App_down(a) == [a EXCEPT !.scroll_offset = Min2(Min2(@ + 1, U16 - 1), a.max_scroll_offset)]

\* the flex mode of a Layout built without one
Flex_default == "Stretch"

Layout_vertical(constraints) == Layout("Vertical", constraints, Flex_default, Margin(0, 0))

\* Buffer::resize(area): cells past the new area are dropped, missing cells
\* are blank
Buffer_resize(b, r) ==
    Buffer(r, [i \in 1..area(r) |-> IF i <= Len(b.content) THEN b.content[i] ELSE BlankCell])

ExampleSymbol == <<"example1", "example2", "example3", "example4", "example5">>

\* ExampleSelection::render: example k fills the rows of its
\* EXAMPLE_HEIGHT-high slot, as far as the buffer reaches
ExampleSelection_render(sel, b) ==
    Buffer(b.area,
           [i \in 1..Len(b.content) |->
               LET k == ((pos_of(b, i)[2] - b.area.y) \div EXAMPLE_HEIGHT) + 1
               IN  IF k <= rendered_examples(sel) THEN Cell(ExampleSymbol[k], "default")
                   ELSE b.content[i]])

\* render_axis formats the bar with width - width_label.len() / 2, a usize
\* subtraction that underflows for a width below 2 ("0 px", "1 px")
render_axis_underflows(width) == width < 2

\* App::render_tabs_and_axis: the tabs fill the first three rows, the axis
\* the next three
render_tabs_and_axis(b) ==
    Buffer(b.area,
           [i \in 1..Len(b.content) |->
               IF pos_of(b, i)[2] - b.area.y < 3 THEN Cell("tabs", "default")
               ELSE Cell("axis", "default")])

\* iter.skip(n).take(m)
SkipTake(s, n, m) == SubSeq(s, n + 1, Min2(Len(s), n + m))

\* the cell store App::render assembles before it resizes: the cells of the
\* tabs buffer followed by the scrolled slice of the demo buffer
Assembled(a, r, b) ==
    LET parts == split(Layout_vertical(<<Fixed(TABS_AND_AXIS_HEIGHT), Proportional(0)>>), r)
        tabs_and_axis_area == parts[1]
        demo_area == parts[2]
        demo_buf == ExampleSelection_render(a.selected_example,
                        Buffer_empty(Rect(0, 0, b.area.width,
                            get_example_count(a.selected_example) * EXAMPLE_HEIGHT
                                + tabs_and_axis_area.height)))
        tabs_and_axis_buf == render_tabs_and_axis(Buffer_empty(tabs_and_axis_area))
    IN  tabs_and_axis_buf.content
            \o SkipTake(demo_buf.content, (b.area.width * a.scroll_offset) % U16,
                        area(demo_area))

\* App::render without the closing buf.resize(buf.area)
App_render_no_resize(a, r, b) == Buffer(b.area, Assembled(a, r, b))

\* impl Widget for App: render(self, area, buf)
App_render(a, r, b) == Buffer_resize(Buffer(b.area, Assembled(a, r, b)), b.area)

\* widest and tallest terminal
MaxWidth == 3

MaxHeight == 18

Keys == {"q", "l", "h", "j", "k", "other"}

InitExample ==
    /\ app = update_max_scroll_offset(App("Fixed", 0, 0))
    /\ term_size \in {Rect(0, 0, w, h) : w \in 0..MaxWidth, h \in 0..MaxHeight}
    /\ buf = Buffer_empty(term_size)
    /\ cpc = "draw"
    /\ LayoutIdle /\ CacheIdle /\ DiffIdle /\ RunIdle /\ ScrollbarIdle /\ StateIdle /\ TextIdle

\* terminal.draw(|f| f.render_widget(app, f.size())): the frame's buffer is
\* blank and as large as the terminal; a failing backend ends run_app, and
\* so does the panic of render_axis
ExampleDraw ==
    /\ cpc = "draw"
    /\ \/ /\ ~render_axis_underflows(term_size.width)
          /\ buf' = App_render(app, term_size, Buffer_empty(term_size))
          /\ cpc' = "read"
       \/ /\ render_axis_underflows(term_size.width)
          /\ cpc' = "panicked"
          /\ UNCHANGED buf
       \/ /\ cpc' = "error"
          /\ UNCHANGED buf
    /\ UNCHANGED <<app, term_size>>
    /\ UNCHANGED <<layoutVars, cacheVars, diffVars, runVars, scrollbarVars, stateVars, textVars>>

\* event::read() and the match on the key code
ExampleEvent ==
    /\ cpc = "read"
    /\ \/ \E key \in Keys :
             /\ app' = CASE key \in {"l"} -> App_next(app)
                          [] key \in {"h"} -> App_previous(app)
                          [] key \in {"j"} -> App_down(app)
                          [] key \in {"k"} -> App_up(app)
                          [] OTHER -> app
             /\ cpc' = IF key = "q" THEN "done" ELSE "draw"
       \/ /\ cpc' = "error"
          /\ UNCHANGED app
    /\ UNCHANGED <<term_size, buf>>
    /\ UNCHANGED <<layoutVars, cacheVars, diffVars, runVars, scrollbarVars, stateVars, textVars>>

NextExample == ExampleDraw \/ ExampleEvent

SpecExample == InitExample /\ [][NextExample]_vars

\* C6: the length of the buffer's cell store equals width * height of its
\* area after every completed render, for every selection, every
\* scroll_offset in 0..=max_scroll_offset and every terminal size.
C6_ContentLength ==
    /\ Len(buf.content) = buf.area.width * buf.area.height
    /\ buf.area = term_size
    /\ app.scroll_offset \in 0..app.max_scroll_offset

\* C6 witness: a completed render of a scrolled example whose assembled
\* cells did not fill the area
C6_Witness ==
    /\ cpc = "read"
    /\ app.scroll_offset > 0
    /\ Len(Assembled(app, term_size, Buffer_empty(term_size))) < area(term_size)
    /\ buf.content[1].symbol = "tabs"
    /\ Len(buf.content) = area(term_size)

(***************************************************************************)
(* The demo2 render loop (examples/demo2/app.rs): App::run, App::draw,     *)
(* App::handle_events and App::handle_key_event.  The backend (Term) may   *)
(* fail in any of its calls.                                               *)
(***************************************************************************)
TAB_COUNT == 5

\* most draws and polls of a run, and the highest row index
MaxSteps == 8

MaxRow == 2

KeyEventKind == {"Press", "Repeat", "Release"}

KeyCode == {"q", "Esc", "Tab", "BackTab", "Up", "k", "Down", "j", "d", "other"}

KeyEvent == [kind : KeyEventKind, code : KeyCode, shift : BOOLEAN]

\* what Term::next_event returns: an error, None on a timeout, or an event
Events ==
    {[type |-> "Error"], [type |-> "None"], [type |-> "Resize"], [type |-> "Other"]}
        \cup {[type |-> "Key", key |-> k] : k \in KeyEvent}

\* a `?` that swallows the error and goes round the loop again
try_retry(result, next_pc) == [pc |-> IF result = "Ok" THEN next_pc ELSE "check", ret |-> "none"]

\* the `?` operator: an Err returns from run with that error, an Ok goes on
try(result, next_pc) ==
    IF result = "Ok" THEN [pc |-> next_pc, ret |-> "none"]
    ELSE [pc |-> "returned", ret |-> result]

\* should_quit that never lets the loop end
should_quit_never(m) == FALSE

\* App::should_quit
should_quit(m) == m = "Quit"

\* App::handle_key_event: the mode and the context after a key event
handle_key_event(m, c, key) ==
    IF key.kind # "Press" THEN [mode |-> m, context |-> c]
    ELSE CASE key.code \in {"q", "Esc"} -> [mode |-> "Quit", context |-> c]
           [] key.code \in {"Tab", "BackTab"} /\ key.shift ->
                [mode |-> m,
                 context |-> [tab_index |-> saturating_sub(c.tab_index + TAB_COUNT, 1) % TAB_COUNT,
                              row_index |-> 0]]
           [] key.code \in {"Tab", "BackTab"} /\ ~key.shift ->
                [mode |-> m,
                 context |-> [tab_index |-> (c.tab_index + 1) % TAB_COUNT, row_index |-> 0]]
           [] key.code \in {"Up", "k"} ->
                [mode |-> m, context |-> [c EXCEPT !.row_index = saturating_sub(@, 1)]]
           [] key.code \in {"Down", "j"} ->
                [mode |-> m, context |-> [c EXCEPT !.row_index = @ + 1]]
           [] key.code = "d" -> [mode |-> "Destroy", context |-> c]
           [] OTHER -> [mode |-> m, context |-> c]

Failed(op) == [op |-> op, at |-> Len(log)]

InitRun ==
    /\ mode = "Normal"
    /\ context = [tab_index |-> 0, row_index |-> 0]
    /\ rpc = "new"
    /\ run_result = "none"
    /\ failure = [op |-> "none", at |-> 0]
    /\ stopped = FALSE
    /\ log = <<>>
    /\ LayoutIdle /\ CacheIdle /\ DiffIdle /\ ExampleIdle /\ ScrollbarIdle /\ StateIdle /\ TextIdle

RunFrame ==
    UNCHANGED <<layoutVars, cacheVars, diffVars, exampleVars, scrollbarVars, stateVars, textVars>>

\* App::run: let mut app = Self::new()?  (Term::start may fail)
RunNew ==
    /\ rpc = "new"
    /\ \E result \in {"Ok", "Err(start)"} :
          /\ rpc' = try(result, "check").pc
          /\ run_result' = try(result, "check").ret
          /\ failure' = IF result = "Ok" THEN failure ELSE Failed("start")
    /\ UNCHANGED <<mode, context, stopped, log>>
    /\ RunFrame

\* App::run: while !app.should_quit()
RunWhile ==
    /\ rpc = "check"
    /\ rpc' = IF should_quit(mode) THEN "stop" ELSE "draw"
    /\ UNCHANGED <<mode, context, run_result, failure, stopped, log>>
    /\ RunFrame

\* App::run: app.draw()?  (terminal.draw may fail)
RunDraw ==
    /\ rpc = "draw"
    /\ Len(log) < MaxSteps
    /\ log' = Append(log, "draw")
    /\ \E result \in {"Ok", "Err(draw)"} :
          /\ rpc' = try(result, "events").pc
          /\ run_result' = try(result, "events").ret
          /\ failure' = IF result = "Ok" THEN failure
                         ELSE [op |-> "draw", at |-> Len(log) + 1]
    /\ UNCHANGED <<mode, context, stopped>>
    /\ RunFrame

\* App::run: app.handle_events()?  (Term::next_event and Term::resize may
\* fail); a key event goes to handle_key_event
RunHandleEvents ==
    /\ rpc = "events"
    /\ log' = Append(log, "poll")
    /\ \E ev \in Events, resized \in {"Ok", "Err(resize)"} :
          LET result == CASE ev.type = "Error" -> "Err(event)"
                          [] ev.type = "Resize" -> resized
                          [] OTHER -> "Ok"
              after == IF ev.type = "Key" THEN handle_key_event(mode, context, ev.key)
                       ELSE [mode |-> mode, context |-> context]
          IN  /\ after.context.row_index <= MaxRow
              /\ mode' = after.mode
              /\ context' = after.context
              /\ rpc' = try(result, "check").pc
              /\ run_result' = try(result, "check").ret
              /\ failure' = IF result = "Ok" THEN failure
                             ELSE [op |-> IF ev.type = "Error" THEN "event" ELSE "resize",
                                   at |-> Len(log) + 1]
    /\ UNCHANGED stopped
    /\ RunFrame

\* App::run: Term::stop()?; Ok(())
RunStop ==
    /\ rpc = "stop"
    /\ stopped' = TRUE
    /\ \E result \in {"Ok", "Err(stop)"} :
          /\ rpc' = "returned"
          /\ run_result' = IF try(result, "returned").ret = "none" THEN "Ok"
                            ELSE try(result, "returned").ret
          /\ failure' = IF result = "Ok" THEN failure ELSE Failed("stop")
    /\ UNCHANGED <<mode, context, log>>
    /\ RunFrame

NextRun == RunNew \/ RunWhile \/ RunDraw \/ RunHandleEvents \/ RunStop

SpecRun == InitRun /\ [][NextRun]_vars

\* C7: when drawing a frame (or reading an event) fails, run ends with that
\* error and performs no further draw or event poll: nothing is retried.
C7_ErrorPropagates ==
    failure.op \in {"draw", "event"} =>
        /\ rpc = "returned"
        /\ run_result = (IF failure.op = "draw" THEN "Err(draw)" ELSE "Err(event)")
        /\ Len(log) = failure.at
        /\ log[Len(log)] = (IF failure.op = "draw" THEN "draw" ELSE "poll")

\* C7 witness: a draw failed after earlier frames had been drawn and polled
C7_Witness ==
    /\ failure.op = "draw"
    /\ failure.at >= 3
    /\ rpc = "returned"
    /\ run_result = "Err(draw)"

(***************************************************************************)
(* ScrollbarState (src/widgets/scrollbar/state.rs).  A usize saturates at  *)
(* UsizeMax.                                                               *)
(***************************************************************************)
\* the largest usize of the model
UsizeMax == 4

saturating_add(a, b) == Min2(a + b, UsizeMax)

ScrollbarState(content_length, position, viewport_content_length) ==
    [content_length |-> content_length, position |-> position,
     viewport_content_length |-> viewport_content_length]

\* ScrollbarState::new(content_length)
ScrollbarState_new(content_length) == ScrollbarState(content_length, 0, 0)

ScrollbarState_position(st, position) == [st EXCEPT !.position = position]

ScrollbarState_content_length(st, content_length) ==
    [st EXCEPT !.content_length = content_length]

ScrollbarState_viewport_content_length(st, viewport_content_length) ==
    [st EXCEPT !.viewport_content_length = viewport_content_length]

ScrollbarState_prev(st) == [st EXCEPT !.position = saturating_sub(@, 1)]

\* next() without the clamp to the content length
ScrollbarState_next_unclamped(st) == [st EXCEPT !.position = saturating_add(@, 1)]

\* next() with the clamp and without the increment
ScrollbarState_next_stuck(st) ==
    [st EXCEPT !.position = Min2(@, saturating_sub(st.content_length, 1))]

ScrollbarState_next(st) ==
    [st EXCEPT !.position = Min2(saturating_add(@, 1), saturating_sub(st.content_length, 1))]

ScrollbarState_first(st) == [st EXCEPT !.position = 0]

ScrollbarState_last(st) == [st EXCEPT !.position = saturating_sub(st.content_length, 1)]

ScrollbarState_scroll(st, direction) ==
    IF direction = "Forward" THEN ScrollbarState_next(st) ELSE ScrollbarState_prev(st)

(***************************************************************************)
(* Scrollbar (src/widgets/scrollbar/scrollbar.rs).  A symbol is the tuple  *)
(* of its one-column graphemes; an Option is <<>> (None) or <<v>> (Some).  *)
(***************************************************************************)
None == <<>>

Some(v) == <<v>>

is_some(opt) == opt # <<>>

\* UnicodeWidthStr::width
width(symbol) == Len(symbol)

DOUBLE_VERTICAL ==
    [track |-> <<"v-track">>, thumb |-> <<"v-thumb">>, begin |-> <<"v-begin">>, end |-> <<"v-end">>]

DOUBLE_HORIZONTAL ==
    [track |-> <<"h-track">>, thumb |-> <<"h-thumb">>, begin |-> <<"h-begin">>, end |-> <<"h-end">>]

ScrollbarOrientation == {"VerticalRight", "VerticalLeft", "HorizontalBottom", "HorizontalTop"}

is_vertical(orientation) == orientation \in {"VerticalLeft", "VerticalRight"}

\* symbols(set) that gives every symbol the value of the set
Scrollbar_symbols_overwrite(sb, set) ==
    [sb EXCEPT !.thumb_symbol = set.thumb, !.track_symbol = Some(set.track),
               !.begin_symbol = Some(set.begin), !.end_symbol = Some(set.end)]

\* Scrollbar::symbols(set)
Scrollbar_symbols(sb, set) ==
    [sb EXCEPT !.thumb_symbol = set.thumb,
               !.track_symbol = IF is_some(@) THEN Some(set.track) ELSE @,
               !.begin_symbol = IF is_some(@) THEN Some(set.begin) ELSE @,
               !.end_symbol = IF is_some(@) THEN Some(set.end) ELSE @]

\* Scrollbar::orientation(orientation)
Scrollbar_orientation(sb, orientation) ==
    Scrollbar_symbols([sb EXCEPT !.orientation = orientation],
                      IF is_vertical(orientation) THEN DOUBLE_VERTICAL ELSE DOUBLE_HORIZONTAL)

\* Scrollbar::orientation_and_symbol(orientation, set)
Scrollbar_orientation_and_symbol(sb, orientation, set) ==
    Scrollbar_symbols([sb EXCEPT !.orientation = orientation], set)

Scrollbar_default ==
    [orientation |-> "VerticalRight",
     thumb_symbol |-> DOUBLE_VERTICAL.thumb, thumb_style |-> "default",
     track_symbol |-> Some(DOUBLE_VERTICAL.track), track_style |-> "default",
     begin_symbol |-> Some(DOUBLE_VERTICAL.begin), begin_style |-> "default",
     end_symbol |-> Some(DOUBLE_VERTICAL.end), end_style |-> "default"]

\* Scrollbar::new(orientation)
Scrollbar_new(orientation) == Scrollbar_orientation(Scrollbar_default, orientation)

Scrollbar_track_symbol(sb, track_symbol) == [sb EXCEPT !.track_symbol = track_symbol]

Scrollbar_begin_symbol(sb, begin_symbol) == [sb EXCEPT !.begin_symbol = begin_symbol]

Scrollbar_end_symbol(sb, end_symbol) == [sb EXCEPT !.end_symbol = end_symbol]

Scrollbar_thumb_symbol(sb, thumb_symbol) == [sb EXCEPT !.thumb_symbol = thumb_symbol]

\* Scrollbar::scollbar_area: the strip the scrollbar is rendered in
scollbar_area(sb, a) ==
    CASE sb.orientation = "VerticalLeft" -> [a EXCEPT !.width = 1]
      [] sb.orientation = "VerticalRight" ->
            [a EXCEPT !.x = saturating_sub(right(a), 1), !.width = 1]
      [] sb.orientation = "HorizontalTop" -> [a EXCEPT !.height = 1]
      [] sb.orientation = "HorizontalBottom" ->
            [a EXCEPT !.y = saturating_sub(bottom(a), 1), !.height = 1]

option_width(opt) == IF is_some(opt) THEN width(opt[1]) ELSE 0

\* Scrollbar::track_length_excluding_arrow_heads
track_length_excluding_arrow_heads(sb, a) ==
    LET arrows_len == option_width(sb.begin_symbol) + option_width(sb.end_symbol)
    IN  IF is_vertical(sb.orientation) THEN saturating_sub(a.height, arrows_len)
        ELSE saturating_sub(a.width, arrows_len)

\* Scrollbar::viewport_length
viewport_length(sb, a) == IF is_vertical(sb.orientation) THEN a.height ELSE a.width

\* (n / d).round() as usize for n, d >= 0: 0 / 0 is NaN and casts to 0, a
\* positive n / 0 is infinite and casts to the largest usize
round_as_usize(n, d) ==
    IF d = 0 THEN (IF n = 0 THEN 0 ELSE UsizeMax) ELSE RoundDiv(n, d)

\* part_lengths with the position taken as it is, not clamped to the end
part_lengths_unclamped(sb, a, st) ==
    LET track_len == track_length_excluding_arrow_heads(sb, a)
        viewport_len == viewport_length(sb, a)
        scrollable_content_len == st.content_length + viewport_len - 1
        track_start_len == round_as_usize(st.position * track_len, scrollable_content_len)
        thumb_end == round_as_usize((st.position + viewport_len) * track_len,
                                    scrollable_content_len)
        thumb_len == saturating_sub(thumb_end, track_start_len)
    IN  <<track_start_len, thumb_len, track_len - track_start_len - thumb_len>>

\* Scrollbar::part_lengths: <<track_start_len, thumb_len, track_end_len>>
part_lengths(sb, a, st) ==
    LET track_len == track_length_excluding_arrow_heads(sb, a)
        viewport_len == viewport_length(sb, a)
        position == Min2(st.position, st.content_length - 1)
        scrollable_content_len == st.content_length + viewport_len - 1
        track_start_len == round_as_usize(position * track_len, scrollable_content_len)
        thumb_end == round_as_usize((position + viewport_len) * track_len,
                                    scrollable_content_len)
        thumb_len == saturating_sub(thumb_end, track_start_len)
    IN  <<track_start_len, thumb_len, track_len - track_start_len - thumb_len>>

\* iter::repeat(item).take(n), flattened: a None yields nothing
Repeat(opt, n) == IF is_some(opt) /\ n > 0 THEN [i \in 1..n |-> opt[1]] ELSE <<>>

\* the chain of Scrollbar::bars for given part lengths: the (symbol, style)
\* of the parts, in order
bar_items(sb, lens) ==
    LET begin == IF is_some(sb.begin_symbol) THEN Some(<<sb.begin_symbol[1], sb.begin_style>>)
                 ELSE None
        track == IF is_some(sb.track_symbol) THEN Some(<<sb.track_symbol[1], sb.track_style>>)
                 ELSE None
        thumb == Some(<<sb.thumb_symbol, sb.thumb_style>>)
        end == IF is_some(sb.end_symbol) THEN Some(<<sb.end_symbol[1], sb.end_style>>)
               ELSE None
    IN  Repeat(begin, 1) \o Repeat(track, lens[1]) \o Repeat(thumb, lens[2])
            \o Repeat(track, lens[3]) \o Repeat(end, 1)

\* Scrollbar::bars
bars(sb, a, st) == bar_items(sb, part_lengths(sb, a, st))

\* area.rows().flat_map(Rect::columns): the positions of a rect, row by row
positions(r) == [i \in 1..area(r) |-> <<r.x + ((i - 1) % r.width), r.y + ((i - 1) \div r.width)>>]

\* Buffer::set_string(x, y, string, style): the graphemes go left to right
\* from (x, y) and stop at the buffer's right edge
set_string(b, x, y, string, style) ==
    Buffer(b.area,
           [i \in 1..Len(b.content) |->
               LET p == pos_of(b, i)
               IN  IF p[2] = y /\ p[1] >= x /\ p[1] < x + width(string)
                   THEN Cell(string[p[1] - x + 1], style)
                   ELSE b.content[i]])

\* the zipped loop of Scrollbar::render from its k-th item on; a position
\* outside the buffer makes set_string panic
RECURSIVE render_from(_, _, _, _)
render_from(b, cells, items, k) ==
    IF k > Len(cells) \/ k > Len(items) THEN [buf |-> b, panicked |-> FALSE]
    ELSE IF cells[k] \notin Cells(b.area) THEN [buf |-> b, panicked |-> TRUE]
    ELSE render_from(set_string(b, cells[k][1], cells[k][2], items[k][1], items[k][2]),
                     cells, items, k + 1)

\* render without the early return on an empty content
Scrollbar_render_always(sb, a, b, st) ==
    render_from(b, positions(scollbar_area(sb, a)),
                bars(sb, scollbar_area(sb, a), st), 1)

\* impl StatefulWidget for Scrollbar: render(self, area, buf, state)
Scrollbar_render(sb, a, b, st) ==
    IF st.content_length = 0 THEN [buf |-> b, panicked |-> FALSE]
    ELSE LET strip == scollbar_area(sb, a)
         IN  render_from(b, positions(strip), bars(sb, strip, st), 1)

\* side of the buffer the scrollbar is rendered into, largest content length
BufSize == 4

MaxContent == 3

\* the scrollbars the builder gives: an orientation with its symbol set,
\* each of begin, end and track kept or set to None
Scrollbars ==
    {Scrollbar_track_symbol(Scrollbar_end_symbol(Scrollbar_begin_symbol(
            Scrollbar_new(o), IF b THEN Scrollbar_new(o).begin_symbol ELSE None),
            IF e THEN Scrollbar_new(o).end_symbol ELSE None),
            IF t THEN Scrollbar_new(o).track_symbol ELSE None) :
        o \in ScrollbarOrientation, b \in BOOLEAN, e \in BOOLEAN, t \in BOOLEAN}

\* the areas inside the buffer with their origin in its first two columns
\* and rows
ScrollbarAreas ==
    {Rect(x, y, w, h) : <<x, y>> \in (0..1) \X (0..1),
                        <<w, h>> \in (0..BufSize) \X (0..BufSize)}
        \cap {r \in [x : 0..1, y : 0..1, width : 0..BufSize, height : 0..BufSize] :
                  right(r) <= BufSize /\ bottom(r) <= BufSize}

InitScrollbar ==
    /\ scrollbar \in Scrollbars
    /\ sb_state \in {ScrollbarState(c, p, v) :
                        c \in 0..MaxContent, p \in 0..(MaxContent + 1), v \in {0, 2}}
    /\ sb_area \in ScrollbarAreas
    /\ sb_buf = Buffer_empty(Rect(0, 0, BufSize, BufSize))
    /\ sb_pc = "ready"
    /\ sb_call = [op |-> "none", set |-> <<>>]
    /\ LayoutIdle /\ CacheIdle /\ DiffIdle /\ ExampleIdle /\ RunIdle /\ StateIdle /\ TextIdle

\* frame.render_stateful_widget(scrollbar, area, &mut state)
ScrollbarRender ==
    /\ sb_pc = "ready"
    /\ LET out == Scrollbar_render(scrollbar, sb_area, sb_buf, sb_state)
       IN  /\ sb_buf' = out.buf
           /\ sb_pc' = IF out.panicked THEN "panicked" ELSE "rendered"
    /\ UNCHANGED <<scrollbar, sb_state, sb_area, sb_call>>
    /\ UNCHANGED <<layoutVars, cacheVars, diffVars, exampleVars, runVars, stateVars, textVars>>

NextScrollbar == ScrollbarRender

SpecScrollbar == InitScrollbar /\ [][NextScrollbar]_vars

\* the cells of the buffer that are no longer blank
Changed(b) == {pos_of(b, i) : i \in {k \in 1..Len(b.content) : b.content[k] # BlankCell}}

\* the one-cell-thick strip of an area on the edge the orientation names
EdgeStrip(orientation, a) ==
    {p \in Cells(a) :
        CASE orientation = "VerticalRight" -> p[1] = right(a) - 1
          [] orientation = "VerticalLeft" -> p[1] = a.x
          [] orientation = "HorizontalBottom" -> p[2] = bottom(a) - 1
          [] orientation = "HorizontalTop" -> p[2] = a.y}

\* C8: Scrollbar::render writes only to cells inside the area it is given,
\* areas of zero width or height included: it changes only the
\* one-cell-thick strip on the edge named by the orientation, leaves every
\* other cell unchanged and does not fail.
C8_WritesOnlyStrip ==
    sb_pc # "ready" =>
        /\ Changed(sb_buf) \subseteq EdgeStrip(scrollbar.orientation, sb_area)
        /\ sb_pc = "rendered"

(***************************************************************************)
(* The public API of ScrollbarState, called in any order.  `before` is the *)
(* state the last call started from and `last_op` names that call.         *)
(***************************************************************************)
Usize == 0..UsizeMax

ScrollDirection == {"Forward", "Backward"}

InitState ==
    /\ state = ScrollbarState(0, 0, 0)
    /\ before = ScrollbarState(0, 0, 0)
    /\ last_op = "default"
    /\ LayoutIdle /\ CacheIdle /\ DiffIdle /\ ExampleIdle /\ RunIdle /\ ScrollbarIdle /\ TextIdle

\* one call: `op` names it and `result` is the state it leaves
Call(op, result) ==
    /\ state' = result
    /\ before' = state
    /\ last_op' = op
    /\ UNCHANGED <<layoutVars, cacheVars, diffVars, exampleVars, runVars, scrollbarVars, textVars>>

StateNew == \E c \in Usize : Call("new", ScrollbarState_new(c))

StatePosition == \E p \in Usize : Call("position", ScrollbarState_position(state, p))

StateContentLength ==
    \E c \in Usize : Call("content_length", ScrollbarState_content_length(state, c))

StateViewportContentLength ==
    \E v \in Usize :
        Call("viewport_content_length", ScrollbarState_viewport_content_length(state, v))

StatePrev == Call("prev", ScrollbarState_prev(state))

StateNext == Call("next", ScrollbarState_next(state))

StateFirst == Call("first", ScrollbarState_first(state))

StateLast == Call("last", ScrollbarState_last(state))

StateScroll ==
    \E d \in ScrollDirection :
        Call(IF d = "Forward" THEN "scroll_forward" ELSE "scroll_backward",
             ScrollbarState_scroll(state, d))

NextState ==
    \/ StateNew
    \/ StatePosition
    \/ StateContentLength
    \/ StateViewportContentLength
    \/ StatePrev
    \/ StateNext
    \/ StateFirst
    \/ StateLast
    \/ StateScroll

SpecState == InitState /\ [][NextState]_vars

\* the last call was next(), directly or through scroll(Forward)
CalledNext == last_op \in {"next", "scroll_forward"}

\* C9: after ScrollbarState::next() the position does not exceed the length
\* of the content, whatever the state before the call was: position <=
\* content_length, and position <= content_length - 1 whenever
\* content_length >= 1.
C9_NextWithinContent ==
    CalledNext =>
        /\ state.position <= state.content_length
        /\ state.content_length >= 1 => state.position <= state.content_length - 1

\* next() was called with the position at or past the end of the content
C9_Witness ==
    /\ CalledNext
    /\ before.content_length >= 1
    /\ before.position >= before.content_length
    /\ state.position = state.content_length - 1

\* C10 as stated: the position after next() is never lower than the
\* position before, and it is exactly one higher whenever the position
\* before was below content_length - 1.
C10_NextIncrements_Original ==
    CalledNext =>
        /\ state.position >= before.position
        /\ before.position < before.content_length - 1 =>
               state.position = before.position + 1

\* C10, amended: the position after next() is never lower than a position
\* before that was at most content_length.saturating_sub(1), it is exactly
\* one higher whenever the position before was below content_length - 1,
\* and a position before that was above content_length.saturating_sub(1)
\* is lowered to content_length.saturating_sub(1).
C10_NextIncrements ==
    CalledNext =>
        LET end == saturating_sub(before.content_length, 1)
        IN  /\ before.position <= end => state.position >= before.position
            /\ before.position < before.content_length - 1 =>
                   state.position = before.position + 1
            /\ before.position > end => state.position = end

\* next() has moved a position below content_length - 1 one up
C10_Witness ==
    /\ CalledNext
    /\ before.position >= 1
    /\ before.position < before.content_length - 1
    /\ state.position = before.position + 1

\* the buffer the scrollbar is rendered into, as it was before the render
BlankBuffer == Buffer_empty(Rect(0, 0, BufSize, BufSize))

\* C11: a ScrollbarState whose content_length is 0 results in the scrollbar
\* not rendering: render leaves every buffer cell unchanged and does not
\* panic, for every orientation, area, position and symbol configuration.
C11_EmptyContentNoRender ==
    (sb_pc \notin {"ready", "idle"} /\ sb_state.content_length = 0) =>
        /\ sb_pc = "rendered"
        /\ sb_buf = BlankBuffer

\* an empty content was rendered into a non-empty area with all the symbols
C11_Witness ==
    /\ sb_pc = "rendered"
    /\ sb_state.content_length = 0
    /\ sb_state.position > 0
    /\ sb_area.width > 0 /\ sb_area.height > 1
    /\ is_some(scrollbar.begin_symbol) /\ is_some(scrollbar.track_symbol)
    /\ sb_buf = BlankBuffer

\* the state with its position clamped to the last item of the content
AtEnd(st) == [st EXCEPT !.position = st.content_length - 1]

\* C12: for content_length >= 1, rendering with a position >= content_length
\* does not panic and produces exactly the cells that rendering with
\* position = content_length - 1 produces: the thumb ends where the track
\* ends and nothing is drawn outside the strip of the scrollbar.
C12_PositionPastEnd ==
    (sb_pc \notin {"ready", "idle"} /\ sb_state.content_length >= 1
        /\ sb_state.position >= sb_state.content_length) =>
        LET strip == scollbar_area(scrollbar, sb_area)
            lens == part_lengths(scrollbar, strip, sb_state)
        IN  /\ sb_pc = "rendered"
            /\ sb_buf = Scrollbar_render(scrollbar, sb_area, BlankBuffer, AtEnd(sb_state)).buf
            /\ lens[1] + lens[2] = track_length_excluding_arrow_heads(scrollbar, strip)
            /\ lens[3] = 0
            /\ Changed(sb_buf) \subseteq Cells(strip)

\* a position past the end was rendered with a thumb that leaves track
\* before it, at the end of a track between the two arrows
C12_Witness ==
    /\ sb_pc = "rendered"
    /\ sb_state.content_length >= 2
    /\ sb_state.position > sb_state.content_length
    /\ is_some(scrollbar.begin_symbol) /\ is_some(scrollbar.end_symbol)
    /\ is_some(scrollbar.track_symbol)
    /\ LET lens == part_lengths(scrollbar, scollbar_area(scrollbar, sb_area), sb_state)
       IN  lens[1] >= 1 /\ lens[2] >= 1 /\ lens[3] = 0
    /\ Cardinality(Changed(sb_buf)) >= 4

\* the arithmetic of part_lengths for a given track and viewport length
part_lengths_for(track_len, viewport_len, st) ==
    LET position == Min2(st.position, st.content_length - 1)
        scrollable_content_len == st.content_length + viewport_len - 1
        track_start_len == round_as_usize(position * track_len, scrollable_content_len)
        thumb_end == round_as_usize((position + viewport_len) * track_len,
                                    scrollable_content_len)
        thumb_len == saturating_sub(thumb_end, track_start_len)
    IN  <<track_start_len, thumb_len, track_len - track_start_len - thumb_len>>

\* C14: when ScrollbarState.viewport_content_length is left at its default
\* 0, render uses the track size (the length of the scrollbar without the
\* begin and end symbols) as the viewport content length when it computes
\* the thumb start and the thumb length.
C14_ViewportDefaultsToTrack ==
    (sb_pc = "rendered" /\ sb_state.content_length >= 1
        /\ sb_state.viewport_content_length = 0) =>
        LET strip == scollbar_area(scrollbar, sb_area)
            track_len == track_length_excluding_arrow_heads(scrollbar, strip)
            lens == part_lengths_for(track_len, track_len, sb_state)
        IN  /\ part_lengths(scrollbar, strip, sb_state) = lens
            /\ sb_buf = render_from(BlankBuffer, positions(strip),
                                    bar_items(scrollbar, lens), 1).buf

(***************************************************************************)
(* The builder of Scrollbar: the fluent setters called in any order on     *)
(* Scrollbar::default().  `sb_call` names the last call and the symbol set *)
(* it was given (for orientation, the set it chose).                       *)
(***************************************************************************)
Sets == {DOUBLE_VERTICAL, DOUBLE_HORIZONTAL}

\* the values given to a symbol setter
CustomSymbol == <<"x">>

SymbolOptions == {None, Some(CustomSymbol)}

NoSet == [track |-> <<>>, thumb |-> <<>>, begin |-> <<>>, end |-> <<>>]

InitBuilder ==
    /\ scrollbar = Scrollbar_default
    /\ sb_call = [op |-> "default", set |-> NoSet]
    /\ sb_pc = "build"
    /\ sb_state = <<>>
    /\ sb_area = Rect(0, 0, 0, 0)
    /\ sb_buf = [area |-> Rect(0, 0, 0, 0), content |-> <<>>]
    /\ LayoutIdle /\ CacheIdle /\ DiffIdle /\ ExampleIdle /\ RunIdle /\ StateIdle /\ TextIdle

\* one call of a setter: `op` names it, `set` is its symbol set and `result`
\* the scrollbar it returns
Build(op, set, result) ==
    /\ sb_pc = "build"
    /\ scrollbar' = result
    /\ sb_call' = [op |-> op, set |-> set]
    /\ UNCHANGED <<sb_state, sb_area, sb_buf, sb_pc>>
    /\ UNCHANGED <<layoutVars, cacheVars, diffVars, exampleVars, runVars, stateVars, textVars>>

BuildOrientation ==
    \E o \in ScrollbarOrientation :
        Build("orientation", IF is_vertical(o) THEN DOUBLE_VERTICAL ELSE DOUBLE_HORIZONTAL,
              Scrollbar_orientation(scrollbar, o))

BuildOrientationAndSymbol ==
    \E o \in ScrollbarOrientation, set \in Sets :
        Build("orientation_and_symbol", set, Scrollbar_orientation_and_symbol(scrollbar, o, set))

BuildSymbols == \E set \in Sets : Build("symbols", set, Scrollbar_symbols(scrollbar, set))

BuildThumbSymbol ==
    Build("thumb_symbol", NoSet, Scrollbar_thumb_symbol(scrollbar, CustomSymbol))

BuildTrackSymbol ==
    \E v \in SymbolOptions : Build("track_symbol", NoSet, Scrollbar_track_symbol(scrollbar, v))

BuildBeginSymbol ==
    \E v \in SymbolOptions : Build("begin_symbol", NoSet, Scrollbar_begin_symbol(scrollbar, v))

BuildEndSymbol ==
    \E v \in SymbolOptions : Build("end_symbol", NoSet, Scrollbar_end_symbol(scrollbar, v))

NextBuilder ==
    \/ BuildOrientation
    \/ BuildOrientationAndSymbol
    \/ BuildSymbols
    \/ BuildThumbSymbol
    \/ BuildTrackSymbol
    \/ BuildBeginSymbol
    \/ BuildEndSymbol

SpecBuilder == InitBuilder /\ [][NextBuilder]_vars

\* the optional symbols and the field of a Set each takes its value from
SetField == [track_symbol |-> "track", begin_symbol |-> "begin", end_symbol |-> "end"]

\* C13: once begin_symbol, end_symbol or track_symbol has been set to None
\* it stays None through every later symbols(), orientation() and
\* orientation_and_symbol() call; only its own setter gives it a value
\* again, while a symbol that holds a value is replaced by the
\* corresponding symbol of the new set.
C13_NoneIsSticky ==
    [][sb_pc = "build" =>
        \A f \in DOMAIN SetField :
            /\ (scrollbar[f] = None /\ scrollbar'[f] # None) => sb_call'.op = f
            /\ sb_call'.op \in {"symbols", "orientation", "orientation_and_symbol"} =>
                   scrollbar'[f] = IF scrollbar[f] = None THEN None
                                   ELSE Some(sb_call'.set[SetField[f]])]_vars

\* a set was applied to a scrollbar whose begin and track had been set to
\* None: they are None still, and the end symbol is the one of the set
C13_Witness ==
    /\ sb_call.op \in {"symbols", "orientation_and_symbol"}
    /\ sb_call.set = DOUBLE_HORIZONTAL
    /\ scrollbar.begin_symbol = None
    /\ scrollbar.track_symbol = None
    /\ scrollbar.end_symbol = Some(DOUBLE_HORIZONTAL.end)

(***************************************************************************)
(* Text and Line (src/text/text.rs, src/text/line.rs).  A string is the    *)
(* sequence of its characters.  A Style holds a foreground colour that may *)
(* be unset and the set of modifiers it adds; a Span is a string with a    *)
(* Style.                                                                  *)
(***************************************************************************)
Style(fg, add_modifier) == [fg |-> fg, add_modifier |-> add_modifier]

Style_default == Style(None, {})

\* Style::patch(other): what other sets wins, the modifiers add up
Style_patch(style, other) ==
    Style(IF is_some(other.fg) THEN other.fg ELSE style.fg,
          style.add_modifier \cup other.add_modifier)

Span(content, style) == [content |-> content, style |-> style]

Span_raw(content) == Span(content, Style_default)

Span_styled(content, style) == Span(content, style)

Span_patch_style(span, style) == [span EXCEPT !.style = Style_patch(@, style)]

\* index of the first line feed of a string, 0 when it has none
FirstLineFeed(str) ==
    IF \E i \in 1..Len(str) : str[i] = "\n"
    THEN CHOOSE i \in 1..Len(str) : str[i] = "\n" /\ \A j \in 1..(i - 1) : str[j] # "\n"
    ELSE 0

\* str::lines: the pieces between the line feeds; a line feed at the very
\* end starts no line
RECURSIVE str_lines(_)
str_lines(str) ==
    IF str = <<>> THEN <<>>
    ELSE IF FirstLineFeed(str) = 0 THEN <<str>>
    ELSE <<SubSeq(str, 1, FirstLineFeed(str) - 1)>>
             \o str_lines(SubSeq(str, FirstLineFeed(str) + 1, Len(str)))

Line(spans, style) == [spans |-> spans, style |-> style, alignment |-> None]

\* impl From<&str> for Line: one span that holds the whole string
Line_from(str) == Line(<<Span_raw(str)>>, Style_default)

\* Line::styled(content, style): one raw span for each line of the content
Line_styled(content, style) ==
    Line([i \in 1..Len(str_lines(content)) |-> Span_raw(str_lines(content)[i])], style)

\* Line::style(style)
Line_style(line, style) == [line EXCEPT !.style = style]

\* Line::patch_style(style)
Line_patch_style(line, style) ==
    [line EXCEPT !.spans = [i \in 1..Len(@) |-> Span_patch_style(@[i], style)]]

Text(lines, style) == [lines |-> lines, style |-> style]

\* impl From<Vec<Line>> for Text
Text_from(lines) == Text(lines, Style_default)

\* Text::raw(content)
Text_raw(content) ==
    IF content = <<>> THEN Text_from(<<Line_from(<<>>)>>)
    ELSE Text_from([i \in 1..Len(str_lines(content)) |-> Line_from(str_lines(content)[i])])

\* Text::style(style)
Text_style(t, style) == [t EXCEPT !.style = style]

\* Text::patch_style(style)
Text_patch_style(t, style) ==
    [t EXCEPT !.lines = [i \in 1..Len(@) |-> Line_patch_style(@[i], style)]]

\* Text::styled(content, style)
Text_styled(content, style) == Text_style(Text_patch_style(Text_raw(content), style), style)

\* Text::height
Text_height(t) == Len(t.lines)

\* Text::styled_lines, collected
Text_styled_lines(t) == [i \in 1..Len(t.lines) |-> Line_style(t.lines[i], t.style)]

\* extend that replaces the lines by the new ones
Text_extend_replacing(t, items) == [t EXCEPT !.lines = items]

\* impl Extend for Text: extend(iter), the items already turned into lines
Text_extend(t, items) == [t EXCEPT !.lines = @ \o items]

(***************************************************************************)
(* A Text is built by one constructor and then used through its methods in *)
(* any order.  `text_call` is the list of the calls made, `text_base` the  *)
(* Text after the last call that was not extend, and `text_added` and      *)
(* `text_calls` the lines and the number of items the calls of extend have *)
(* added since.  `text_out` is what the last styled_lines yielded.         *)
(***************************************************************************)
\* longest content string, most calls after the constructor
MaxText == 2

MaxCalls == 2

Contents == UNION {[1..n -> {"a", "\n"}] : n \in 0..MaxText}

Styles ==
    {Style_default, Style(Some("Yellow"), {"ITALIC"}), Style(Some("Red"), {"UNDERLINED"})}

Called(op, content, style) == [op |-> op, content |-> content, style |-> style]

\* a constructor has returned t
Constructed(t, call) ==
    /\ text = t
    /\ text_base = t
    /\ text_added = <<>>
    /\ text_calls = 0
    /\ text_out = <<>>
    /\ text_call = <<call>>

InitText ==
    /\ \E c \in Contents, st \in Styles :
          \/ st = Style_default /\ Constructed(Text_raw(c), Called("raw", c, st))
          \/ Constructed(Text_styled(c, st), Called("styled", c, st))
          \/ Constructed(Text_from(<<Line_styled(c, st)>>), Called("from", c, st))
    /\ LayoutIdle /\ CacheIdle /\ DiffIdle /\ ExampleIdle /\ RunIdle /\ ScrollbarIdle
    /\ StateIdle

TextFrame ==
    UNCHANGED <<layoutVars, cacheVars, diffVars, exampleVars, runVars, scrollbarVars, stateVars>>

\* a call that is not extend has left t
Changed_to(t, call) ==
    /\ Len(text_call) <= MaxCalls
    /\ text' = t
    /\ text_base' = t
    /\ text_added' = <<>>
    /\ text_calls' = 0
    /\ text_call' = Append(text_call, call)
    /\ UNCHANGED text_out
    /\ TextFrame

\* text.patch_style(style)
TextPatchStyle ==
    \E st \in Styles : Changed_to(Text_patch_style(text, st), Called("patch_style", <<>>, st))

\* text = text.style(style)
TextStyle == \E st \in Styles : Changed_to(Text_style(text, st), Called("style", <<>>, st))

\* the items given to extend: nothing, the lines of another Text, a styled
\* Line, or strings
ExtendContents == {<<"a">>, <<"a", "\n", "a">>}

ExtendStyle == Style(Some("Yellow"), {"ITALIC"})

ExtendItems ==
    {<<>>} \cup {Text_raw(c).lines : c \in ExtendContents}
        \cup {Text_styled(c, ExtendStyle).lines : c \in ExtendContents}
        \cup {<<Line_styled(c, ExtendStyle)>> : c \in ExtendContents}
        \cup {<<Line_from(c), Line_from(<<>>)>> : c \in ExtendContents}

\* text.extend(iter)
TextExtend ==
    /\ Len(text_call) <= MaxCalls
    /\ \E items \in ExtendItems :
          /\ text' = Text_extend(text, items)
          /\ text_added' = text_added \o items
          /\ text_calls' = text_calls + Len(items)
    /\ text_call' = Append(text_call, Called("extend", <<>>, Style_default))
    /\ UNCHANGED <<text_base, text_out>>
    /\ TextFrame

\* text.styled_lines().collect()
TextStyledLines ==
    /\ Len(text_call) <= MaxCalls
    /\ text_out' = Text_styled_lines(text)
    /\ text_call' = Append(text_call, Called("styled_lines", <<>>, Style_default))
    /\ UNCHANGED <<text, text_base, text_added, text_calls>>
    /\ TextFrame

NextText == TextPatchStyle \/ TextStyle \/ TextExtend \/ TextStyledLines

SpecText == InitText /\ [][NextText]_vars

\* C15: for every content and every style, Text::raw(content) patched with
\* patch_style(style) is equal to Text::styled(content, style), lines and
\* the style of the Text alike.
C15_RawPatchedIsStyled ==
    (Len(text_call) = 2 /\ text_call[1].op = "raw" /\ text_call[2].op = "patch_style") =>
        text = Text_styled(text_call[1].content, text_call[2].style)

\* C16: styled_lines yields the lines of the text in their order, each
\* with the style of the text applied before the style of the line itself,
\* so that a style set on a line still overrides the style of the text.
C16_StyledLinesKeepLineStyle ==
    (text_call[Len(text_call)].op = "styled_lines") =>
        /\ Len(text_out) = Len(text.lines)
        /\ \A i \in 1..Len(text.lines) :
              /\ text_out[i].spans = text.lines[i].spans
              /\ text_out[i].style = Style_patch(text.style, text.lines[i].style)

\* C17: extend only appends: after any calls of extend the height is the
\* height before them plus the number of items added, the lines that were
\* there are unchanged and in their order, the new lines follow in the
\* order they were given, and the style of the Text is unchanged.
C17_ExtendAppends ==
    /\ Text_height(text) = Text_height(text_base) + text_calls
    /\ text.lines = text_base.lines \o text_added
    /\ text.style = text_base.style

\* two calls of extend have added lines to a styled Text
C17_Witness ==
    /\ Len(text_call) = 3
    /\ text_call[1].op = "styled"
    /\ text_call[2].op = "extend" /\ text_call[3].op = "extend"
    /\ text_calls >= 3
    /\ text.style # Style_default
    /\ \E i \in 1..Len(text_added) : text_added[i].style # Style_default

(***************************************************************************)
(* The demo2 render loop as it is scheduled: single-threaded and           *)
(* synchronous, every call returns, so a loop that can take a step takes   *)
(* it.                                                                     *)
(***************************************************************************)
SpecRunFair == SpecRun /\ WF_vars(NextRun)

\* draw and handle_events alternate, draw first
Alternates == \A i \in 1..Len(log) : log[i] = (IF i % 2 = 1 THEN "draw" ELSE "poll")

\* a key event whose kind is not Press changes no state
OnlyPressActs ==
    \A key \in KeyEvent :
        key.kind # "Press" =>
            handle_key_event(mode, context, key) = [mode |-> mode, context |-> context]

\* C18 as stated: one render pass for each iteration, draw and
\* handle_events strictly alternating and draw first; a key event whose
\* kind is not Press changes no state; once the mode is Quit no further
\* draw or event poll happens, Term::stop is called and run returns Ok.
C18_LoopAlternates_Original ==
    /\ [](Alternates /\ OnlyPressActs)
    /\ [][mode = "Quit" => log' = log]_vars
    /\ (mode = "Quit") ~> (rpc = "returned" /\ stopped /\ run_result = "Ok")

\* C18, amended: as above, but run returns what Term::stop returned: Ok
\* when it succeeded, its error when it failed.
C18_LoopAlternates ==
    /\ [](Alternates /\ OnlyPressActs)
    /\ [][mode = "Quit" => log' = log]_vars
    /\ (mode = "Quit") ~> (rpc = "returned" /\ stopped /\ run_result \in {"Ok", "Err(stop)"})
    /\ []((rpc = "returned" /\ stopped) =>
            /\ mode = "Quit"
            /\ run_result = (IF failure.op = "stop" THEN "Err(stop)" ELSE "Ok"))

\* the loop has gone round at least twice and a pressed q or Esc has ended
\* it: run has returned Ok after Term::stop
C18_Witness ==
    /\ mode = "Quit"
    /\ rpc = "returned"
    /\ stopped
    /\ run_result = "Ok"
    /\ Len(log) >= 4
    /\ context.tab_index # 0

====
